---- MODULE Spec2Model ----
(***************************************************************************)
(* Model of src/app.py: a Streamlit page that fetches a price history for  *)
(* a ticker, divides every close by one EPS figure, and draws the PER      *)
(* series with a 20-day rolling mean and a least-squares trend line.       *)
(*                                                                         *)
(* Text is a sequence of one-character strings.  A float is a fraction     *)
(* [n, d] in lowest terms with d > 0; inf is [1, 0] and nan is [0, 0].     *)
(* A Python value that may be None is <<>> (None) or <<v>>.  The Korean    *)
(* user-visible messages are named by short ASCII tags.                    *)
(***************************************************************************)
EXTENDS Integers, Sequences, FiniteSets, TLC

\* text        the content of the ticker box (line 17), before .upper()
\* periodName  the label picked in the period selectbox (line 30)
\* net         what yfinance answers to a call made now (lines 45-58)
\* cache       the entries of @st.cache_data for load_data (line 40)
\* fetchLog    the sources read by the runs of load_data's body, by its arguments
\* yfCalls     the yfinance calls made by the latest script run
\* response    the pair load_data handed to the latest run (line 92), None
\*             when the button was not pressed in it
\* screen      what the button block shows after the latest run (lines 94-184)
VARIABLES text, periodName, net, cache, fetchLog, yfCalls, response, screen

vars == <<text, periodName, net, cache, fetchLog, yfCalls, response, screen>>

\* ------------------------------------------------------------------ bounds
\* longest short history, rows past the rolling window, largest close, largest EPS
MaxShort == 3
MaxExtra == 1
MaxPrice == 2
MaxEps == 2

\* ------------------------------------------------------------- text input
None == <<>>
Some(v) == <<v>>
Val(o) == o[1]

\* str.upper() on the characters the model types
UpperChar(c) ==
    CASE c = "a" -> "A"
      [] c = "k" -> "K"
      [] c = "s" -> "S"
      [] OTHER -> c

UpperIdentity(s) == s

Upper(s) == [i \in 1..Len(s) |-> UpperChar(s[i])]

\* value= of st.text_input: "005930.KS"
DefaultText == <<"0", "0", "5", "9", "3", "0", ".", "K", "S">>

\* ticker_symbol = st.text_input(...).upper()
TickerSymbol(t) == Upper(t)

\* period_options: label -> yfinance period code (labels: 1Y = "1년", 3M = "3개월", ...)
period_options ==
    [l \in {"1Y", "3M", "6M", "YTD", "2Y", "5Y", "MAX"} |->
        CASE l = "1Y" -> "1y"
          [] l = "3M" -> "3mo"
          [] l = "6M" -> "6mo"
          [] l = "YTD" -> "ytd"
          [] l = "2Y" -> "2y"
          [] l = "5Y" -> "5y"
          [] OTHER -> "max"]

\* selectbox index=0: the first key of period_options
DefaultPeriodName == "1Y"

\* ---------------------------------------------------------------- floats
RECURSIVE GCD(_, _)
GCD(a, b) == IF b = 0 THEN a ELSE GCD(b, a % b)

Abs(x) == IF x < 0 THEN -x ELSE x

Inf == [n |-> 1, d |-> 0]
NaN == [n |-> 0, d |-> 0]
IsFinite(x) == x.d # 0

\* the fraction n/d (d # 0) in lowest terms with a positive denominator
Rat(n, d) ==
    LET g == GCD(Abs(n), Abs(d))
        s == IF d < 0 THEN -1 ELSE 1
    IN  [n |-> s * (n \div g), d |-> s * (d \div g)]

FromInt(i) == Rat(i, 1)

RatAdd(x, y) ==
    IF IsFinite(x) /\ IsFinite(y) THEN Rat(x.n * y.d + y.n * x.d, x.d * y.d) ELSE NaN
RatSub(x, y) ==
    IF IsFinite(x) /\ IsFinite(y) THEN Rat(x.n * y.d - y.n * x.d, x.d * y.d) ELSE NaN
RatMul(x, y) ==
    IF IsFinite(x) /\ IsFinite(y) THEN Rat(x.n * y.n, x.d * y.d) ELSE NaN
\* float64 division: 0/0 is nan, x/0 is inf (numpy warns, it does not raise)
RatDiv(x, y) ==
    IF ~(IsFinite(x) /\ IsFinite(y)) THEN NaN
    ELSE IF y.n = 0 THEN (IF x.n = 0 THEN NaN ELSE Inf)
    ELSE Rat(x.n * y.d, x.d * y.n)

\* ------------------------------------------------------------- load_data
\* user-visible messages of load_data and of the button handler
MsgNoData == <<"NoData: cannot fetch price data, check the ticker">>
MsgMissingEPS == <<"MissingEPS: no EPS data found for the PER calculation">>
MsgLoadError(e) == <<"LoadError: error while loading data", e>>
MsgNoValidPER == <<"NoValidPER: no computable PER data, EPS may be 0 or less">>
MsgPressButton == <<"PressButton: enter a ticker and press the button">>

IsZeroOrNone(e) == e = None \/ Val(e) = 0

\* eps = info.get('trailingEps'); if eps is None or eps == 0: eps = info.get('forwardEps')
ResolveEPSNegativeFallsBack(trailingEps, forwardEps) ==
    IF trailingEps = None \/ Val(trailingEps) <= 0 THEN forwardEps ELSE trailingEps

ResolveEPS(trailingEps, forwardEps) ==
    IF IsZeroOrNone(trailingEps) THEN forwardEps ELSE trailingEps

\* np.where(df['EPS'] > 0, df['Price'] / df['EPS'], np.inf), one row
PERValueInverted(price, eps) ==
    IF eps > 0 THEN RatDiv(FromInt(eps), FromInt(price)) ELSE Inf

PERValueNonZeroGuard(price, eps) ==
    IF eps # 0 THEN RatDiv(FromInt(price), FromInt(eps)) ELSE Inf

PERValue(price, eps) ==
    IF eps > 0 THEN RatDiv(FromInt(price), FromInt(eps)) ELSE Inf

\* df = hist.copy(); df['Price'] = df['Close']; df['EPS'] = eps; df['PER'] = ...
BuildFrame(hist, eps) ==
    [i \in 1..Len(hist) |->
        [Date |-> i, Close |-> hist[i], Price |-> hist[i], EPS |-> eps,
         PER |-> PERValue(hist[i], eps)]]

CallTicker(ticker) == [fn |-> "Ticker", arg |-> ticker]
CallHistory(period) == [fn |-> "history", arg |-> <<period>>]
CallInfo == [fn |-> "info", arg |-> <<>>]

Returned(df, msg, calls) == [data_df |-> df, error_message |-> msg, calls |-> calls]

\* the body of load_data against the data source src (what yfinance answers now)
load_data_EPSFirst(ticker, period, src) ==
    LET c2 == <<CallTicker(ticker), CallInfo>>
        c3 == c2 \o <<CallHistory(period)>>
        eps == ResolveEPS(src.trailingEps, src.forwardEps)
    IN  IF src.infoRaises THEN Returned(None, Some(MsgLoadError("info")), c2)
        ELSE IF IsZeroOrNone(eps) THEN Returned(None, Some(MsgMissingEPS), c2)
        ELSE IF src.historyRaises THEN Returned(None, Some(MsgLoadError("history")), c3)
        ELSE IF src.hist = <<>> THEN Returned(None, Some(MsgNoData), c3)
        ELSE Returned(Some(BuildFrame(src.hist, Val(eps))), None, c3)

load_data(ticker, period, src) ==
    LET c1 == <<CallTicker(ticker), CallHistory(period)>>
        c2 == c1 \o <<CallInfo>>
        eps == ResolveEPS(src.trailingEps, src.forwardEps)
    IN  IF src.historyRaises THEN Returned(None, Some(MsgLoadError("history")), c1)
        ELSE IF src.hist = <<>> THEN Returned(None, Some(MsgNoData), c1)
        ELSE IF src.infoRaises THEN Returned(None, Some(MsgLoadError("info")), c2)
        ELSE IF IsZeroOrNone(eps) THEN Returned(None, Some(MsgMissingEPS), c2)
        ELSE Returned(Some(BuildFrame(src.hist, Val(eps))), None, c2)
\* ------------------------------------------------------ the button handler
\* window = 20
window == 20

Min(a, b) == IF a < b THEN a ELSE b

\* the running window sum pandas keeps: add the new value, drop the one that left
RECURSIVE RollSum(_, _, _)
RollSum(xs, w, i) ==
    IF i = 0 THEN FromInt(0)
    ELSE LET added == RatAdd(RollSum(xs, w, i - 1), xs[i])
         IN  IF i > w THEN RatSub(added, xs[i - w]) ELSE added

\* Series.rolling(window=w).mean(): min_periods defaults to the window
RollingMeanMinPeriodsOne(xs, w) ==
    [i \in 1..Len(xs) |-> RatDiv(RollSum(xs, w, i), FromInt(Min(i, w)))]

RollingMean(xs, w) ==
    [i \in 1..Len(xs) |->
        IF Min(i, w) >= w THEN RatDiv(RollSum(xs, w, i), FromInt(Min(i, w))) ELSE NaN]

RECURSIVE SumTo(_, _)
SumTo(f, i) == IF i = 0 THEN FromInt(0) ELSE RatAdd(SumTo(f, i - 1), f[i])

Mean(f) == RatDiv(SumTo(f, Len(f)), FromInt(Len(f)))

\* scipy.stats.linregress(x, y): ValueError on empty input; otherwise
\* slope = cov(x, y) / var(x), intercept = mean(y) - slope * mean(x)
linregress(x, y) ==
    IF Len(x) = 0 \/ Len(y) = 0 THEN [raised |-> TRUE, slope |-> NaN, intercept |-> NaN]
    ELSE LET xmean == Mean(x)
             ymean == Mean(y)
             ssxm == Mean([i \in 1..Len(x) |->
                        RatMul(RatSub(x[i], xmean), RatSub(x[i], xmean))])
             ssxym == Mean([i \in 1..Len(x) |->
                        RatMul(RatSub(x[i], xmean), RatSub(y[i], ymean))])
             slope == RatDiv(ssxym, ssxm)
         IN  [raised |-> FALSE, slope |-> slope,
              intercept |-> RatSub(ymean, RatMul(slope, xmean))]

\* np.arange(n) as floats
arange(n) == [i \in 1..n |-> FromInt(i - 1)]

Column(df, name) == [i \in 1..Len(df) |-> df[i][name]]

\* st.success of line 98: the banner naming the ticker and the period label
Success(ticker_symbol, selected_period_name) == <<ticker_symbol, selected_period_name>>

\* an exception that leaves the button block after the banner was shown
Raised(what, banner) == [kind |-> "exception", what |-> what, success |-> banner]

\* lines 110-181: the figure, its two overlays and the summary line
DrawChart(plot, ticker_symbol, selected_period_name) ==
    IF Len(plot) = 0 THEN Raised("IndexError: iloc[-1] on an empty frame",
                               Success(ticker_symbol, selected_period_name))
    ELSE LET per == Column(plot, "PER")
             x_values == arange(Len(plot))
             fit == linregress(x_values, per)
         IN  IF fit.raised THEN Raised("ValueError: linregress on empty input",
                                    Success(ticker_symbol, selected_period_name))
             ELSE [kind |-> "chart",
                   success |-> Success(ticker_symbol, selected_period_name),
                   title |-> <<ticker_symbol, plot[Len(plot)].EPS>>,
                   dates |-> Column(plot, "Date"),
                   PER |-> per,
                   PER_MA |-> RollingMean(per, window),
                   Trendline |-> [i \in 1..Len(plot) |->
                       RatAdd(fit.intercept, RatMul(fit.slope, x_values[i]))],
                   current_per |-> per[Len(per)]]

IsNotInf(row) == row.PER # Inf

Message(kind, msg) == [kind |-> kind, msg |-> msg]

\* st.success of line 98 followed by the st.warning of line 106
WarningAfterSuccess(msg, banner) == [kind |-> "warning", msg |-> msg, success |-> banner]

\* lines 94-184 without the emptiness test of line 105
HandlerNoEmptyCheck(resp, ticker_symbol, selected_period_name) ==
    IF resp.error_message # None /\ Val(resp.error_message) # <<>>
    THEN Message("error", Val(resp.error_message))
    ELSE IF resp.data_df # None /\ Val(resp.data_df) # <<>>
    THEN DrawChart(SelectSeq(Val(resp.data_df), IsNotInf), ticker_symbol,
                   selected_period_name)
    ELSE Message("warning", MsgPressButton)

\* lines 94-184: what the page shows for the pair load_data returned
Handler(resp, ticker_symbol, selected_period_name) ==
    IF resp.error_message # None /\ Val(resp.error_message) # <<>>
    THEN Message("error", Val(resp.error_message))
    ELSE IF resp.data_df # None /\ Val(resp.data_df) # <<>>
    THEN LET per_data_for_plot == SelectSeq(Val(resp.data_df), IsNotInf)
         IN  IF per_data_for_plot = <<>>
             THEN WarningAfterSuccess(MsgNoValidPER,
                                      Success(ticker_symbol, selected_period_name))
             ELSE DrawChart(per_data_for_plot, ticker_symbol, selected_period_name)
    ELSE Message("warning", MsgPressButton)

\* the page before the button is pressed in this run: title and inputs only
Idle == [kind |-> "idle"]
\* ------------------------------------------------------------ data source
\* what yfinance answers to the next call: history() raises or returns the
\* closes hist, then info raises or holds the two EPS figures (None: key absent)
Source(historyRaises, hist, infoRaises, trailingEps, forwardEps) ==
    [historyRaises |-> historyRaises, hist |-> hist, infoRaises |-> infoRaises,
     trailingEps |-> trailingEps, forwardEps |-> forwardEps]

\* a history of n closes: a up to row k, a + 1 after it
StepHist(n, k, a) == [i \in 1..n |-> IF i <= k THEN a ELSE a + 1]

HistLengths == (0..MaxShort) \cup ((window - 1)..(window + MaxExtra))

Hists == {StepHist(n, k, a) : n \in HistLengths, k \in 0..(window + MaxExtra), a \in 1..MaxPrice}

EpsFigures == {None} \cup {Some(v) : v \in (-1)..MaxEps}

BuildSources ==
    {Source(FALSE, h, FALSE, t, f) : h \in Hists, t \in EpsFigures, f \in EpsFigures}
    \cup {Source(FALSE, h, TRUE, None, None) : h \in Hists}
    \cup {Source(TRUE, <<>>, FALSE, None, None)}

SessionSources ==
    { Source(TRUE, <<>>, FALSE, None, None),
      Source(FALSE, <<>>, FALSE, Some(2), None),
      Source(FALSE, <<1, 2>>, FALSE, None, None),
      Source(FALSE, <<1, 2>>, FALSE, Some(0), None),
      Source(FALSE, <<1, 2>>, FALSE, Some(2), None) }

\* what the user types into the ticker box, and the periods the user picks
TypedTexts ==
    { DefaultText,
      <<"0", "0", "5", "9", "3", "0", ".", "k", "s">>,
      <<" ", "0", "0", "5", "9", "3", "0", ".", "k", "s">> }

PickedPeriods == {"1Y", "3M"}

\* ------------------------------------------------------------------ cache
EmptyMap == [k \in {} |-> None]

\* @st.cache_data keys an entry by the arguments of the call
CacheKeyTickerOnly(ticker, period) == <<ticker>>

CacheKey(ticker, period) == <<ticker, period>>

\* @st.cache_data stores whatever the function returned, an error pair included
StoreSuccessOnly(c, key, ret) ==
    IF ret.error_message # None THEN c ELSE c @@ (key :> ret)

Store(c, key, ret) == c @@ (key :> ret)

\* record of the calls that reached yfinance, by the arguments of load_data
Logged(log, args, src) ==
    IF args \in DOMAIN log THEN [log EXCEPT ![args] = Append(@, src)]
    ELSE log @@ (args :> <<src>>)

\* ---------------------------------------------------------------- actions
InitPage ==
    /\ text = DefaultText
    /\ periodName = DefaultPeriodName
    /\ cache = EmptyMap
    /\ fetchLog = EmptyMap
    /\ yfCalls = <<>>
    /\ response = None
    /\ screen = Idle

Init == InitPage /\ net \in SessionSources

InitBuild == InitPage /\ net \in BuildSources

\* a rerun of the script in which st.button returns False: nothing below line 88 runs
Rerun ==
    /\ yfCalls' = <<>>
    /\ response' = None
    /\ screen' = Idle

TypeTicker ==
    \E t \in TypedTexts \ {text} :
        /\ text' = t
        /\ Rerun
        /\ UNCHANGED <<periodName, net, cache, fetchLog>>

SelectPeriod ==
    \E p \in PickedPeriods \ {periodName} :
        /\ periodName' = p
        /\ Rerun
        /\ UNCHANGED <<text, net, cache, fetchLog>>

\* the checkbox of line 180 exists only under a drawn chart; ticking it reruns the script
ToggleRawData ==
    /\ screen.kind = "chart"
    /\ Rerun
    /\ UNCHANGED <<text, periodName, net, cache, fetchLog>>

\* the market data behind yfinance changes
SourceChanges ==
    \E src \in SessionSources \ {net} :
        /\ net' = src
        /\ UNCHANGED <<text, periodName, cache, fetchLog, yfCalls, response, screen>>

\* the button: lines 88-184, with the cached call of line 92
Click ==
    LET ticker_symbol == TickerSymbol(text)
        period == period_options[periodName]
        key == CacheKey(ticker_symbol, period)
        hit == key \in DOMAIN cache
        r == load_data(ticker_symbol, period, net)
        ret == IF hit THEN cache[key]
               ELSE [data_df |-> r.data_df, error_message |-> r.error_message]
    IN  /\ cache' = IF hit THEN cache ELSE Store(cache, key, ret)
        /\ fetchLog' = IF hit THEN fetchLog
                       ELSE Logged(fetchLog, <<ticker_symbol, period>>, net)
        /\ yfCalls' = IF hit THEN <<>> ELSE r.calls
        /\ response' = Some(ret)
        /\ screen' = Handler(ret, ticker_symbol, periodName)
        /\ UNCHANGED <<text, periodName, net>>

Next == TypeTicker \/ SelectPeriod \/ ToggleRawData \/ SourceChanges \/ Click

Spec == Init /\ [][Next]_vars

NextBuild == Click

SpecBuild == InitBuild /\ [][NextBuild]_vars
\* ================================================================== claims
\* the button was pressed in the run that drew the current page
Clicked == response # None

\* the arguments load_data is called with for the current inputs
CurrentArgs == <<TickerSymbol(text), period_options[periodName]>>

\* the EPS figure a source resolves to: trailing unless absent or zero, else forward
EPSOf(src) ==
    IF src.trailingEps # None /\ Val(src.trailingEps) # 0 THEN src.trailingEps
    ELSE src.forwardEps

\* history() and info both answered and the history has rows
Answered(src) == ~src.historyRaises /\ ~src.infoRaises /\ src.hist # <<>>

HasNumericPER(resp) ==
    /\ resp.data_df # None
    /\ \E i \in 1..Len(Val(resp.data_df)) : IsFinite(Val(resp.data_df)[i].PER)

\* C1: for a non-empty history and a resolved EPS > 0, load_data returns one row
\* per quote, in order, with EPS the resolved EPS and PER = Price / EPS (never inf)
C1_PERIsPriceOverEPS ==
    (Clicked /\ Answered(net) /\ EPSOf(net) # None /\ Val(EPSOf(net)) > 0) =>
        /\ Val(response).error_message = None
        /\ Val(response).data_df # None
        /\ LET df == Val(Val(response).data_df)
               eps == Val(EPSOf(net))
           IN  /\ Len(df) = Len(net.hist)
               /\ \A i \in 1..Len(df) :
                    /\ df[i].Date = i
                    /\ df[i].Price = net.hist[i]
                    /\ df[i].EPS = eps
                    /\ IsFinite(df[i].PER)
                    /\ df[i].PER.n * eps = df[i].Price * df[i].PER.d

C1_Witness ==
    /\ Clicked /\ Answered(net)
    /\ net.trailingEps = Some(0) /\ net.forwardEps = Some(2)
    /\ net.hist = <<1, 2, 2>>
    /\ Column(Val(Val(response).data_df), "PER") = <<Rat(1, 2), Rat(1, 1), Rat(1, 1)>>

EPSAbsentOrNonPositive(src) ==
    src.historyRaises \/ src.infoRaises \/ EPSOf(src) = None \/ Val(EPSOf(src)) <= 0

\* C2 as stated, on the runs in which yfinance does not raise: whenever the EPS
\* is <= 0 or absent the request ends in the missing-EPS error or the
\* no-valid-PER warning, and no numeric PER is returned
C2_Original ==
    (Clicked /\ ~net.historyRaises /\ ~net.infoRaises /\ EPSAbsentOrNonPositive(net)) =>
        /\ screen.kind \in {"error", "warning"}
        /\ screen.msg \in {MsgMissingEPS, MsgNoValidPER}
        /\ ~HasNumericPER(Val(response))

\* C2 amended: whenever the EPS is <= 0 or absent the request ends in the load
\* error (the fetcher raised), the no-data error (empty history), the missing-EPS
\* error (EPS absent or zero) or, under the data-loaded banner, the no-valid-PER
\* warning (EPS negative), and no numeric PER is returned or displayed
C2_NoNumericPER ==
    (Clicked /\ EPSAbsentOrNonPositive(net)) =>
        /\ ~HasNumericPER(Val(response))
        /\ screen =
             IF net.historyRaises THEN Message("error", MsgLoadError("history"))
             ELSE IF net.hist = <<>> THEN Message("error", MsgNoData)
             ELSE IF net.infoRaises THEN Message("error", MsgLoadError("info"))
             ELSE IF EPSOf(net) = None \/ Val(EPSOf(net)) = 0
                  THEN Message("error", MsgMissingEPS)
             ELSE [kind |-> "warning", msg |-> MsgNoValidPER,
                   success |-> <<Upper(text), periodName>>]

C2_Witness ==
    /\ Clicked /\ Answered(net)
    /\ EPSOf(net) = Some(-1)
    /\ Len(net.hist) > 1
    /\ screen.kind = "warning"
    /\ screen.msg = MsgNoValidPER
    /\ screen.success = <<Upper(text), periodName>>

\* C3: where load_data reaches EPS resolution, the EPS is the trailing figure when it
\* is present and not zero (also when negative), else the forward figure when that
\* is present and not zero; the missing-EPS error comes exactly when both are absent or zero
C3_EPSResolution ==
    (Clicked /\ Answered(net)) =>
        LET t == net.trailingEps
            f == net.forwardEps
            resp == Val(response)
            usesEPS(e) == /\ resp.data_df # None
                          /\ \A i \in 1..Len(Val(resp.data_df)) :
                                Val(resp.data_df)[i].EPS = e
        IN  /\ (t # None /\ Val(t) # 0) => usesEPS(Val(t))
            /\ ((t = None \/ Val(t) = 0) /\ f # None /\ Val(f) # 0) => usesEPS(Val(f))
            /\ (resp.error_message = Some(MsgMissingEPS))
                  <=> ((t = None \/ Val(t) = 0) /\ (f = None \/ Val(f) = 0))

C3_Witness ==
    /\ Clicked /\ Answered(net)
    /\ net.trailingEps = Some(-1) /\ net.forwardEps = Some(2)
    /\ Val(response).data_df # None
    /\ Val(Val(response).data_df)[1].EPS = -1

\* C4: an empty history gives the no-data error whatever the EPS figures are, and
\* the issuer info is not read
C4_EmptyHistoryFirst ==
    (Clicked /\ ~net.historyRaises /\ net.hist = <<>>) =>
        /\ Val(response) = [data_df |-> None, error_message |-> Some(MsgNoData)]
        /\ screen = Message("error", MsgNoData)
        /\ \A i \in 1..Len(yfCalls) : yfCalls[i].fn # "info"

C4_Witness ==
    /\ Clicked /\ ~net.historyRaises /\ net.hist = <<>>
    /\ net.trailingEps = None /\ net.forwardEps = None
    /\ yfCalls = <<CallTicker(TickerSymbol(text)), CallHistory(period_options[periodName])>>
    /\ screen = Message("error", MsgNoData)

\* C5: every request ends in a chart or in an error or warning message; no
\* exception leaves the handler, also not from the rolling mean or the regression
C5_NoEscapingException ==
    /\ screen.kind # "exception"
    /\ Clicked => screen.kind \in {"chart", "error", "warning"}

C5_Witness ==
    /\ Clicked
    /\ screen.kind = "chart"
    /\ Len(screen.PER) = 1
    /\ screen.PER_MA = <<NaN>>
\* the sum of xs[lo..hi], added up directly
RECURSIVE RangeSum(_, _, _)
RangeSum(xs, lo, hi) ==
    IF hi < lo THEN FromInt(0) ELSE RatAdd(RangeSum(xs, lo, hi - 1), xs[hi])

\* the defined (finite) PER values of a returned frame, in row order
DefinedPER(df) == Column(SelectSeq(df, LAMBDA row : IsFinite(row.PER)), "PER")

\* C7: the moving average runs over the defined PER values only; its first
\* window - 1 positions have no value and position i >= window holds the mean of
\* the window values at positions i - window + 1 .. i
C7_MovingAverage ==
    (Clicked /\ screen.kind = "chart") =>
        LET per == DefinedPER(Val(Val(response).data_df))
        IN  /\ screen.PER = per
            /\ Len(screen.PER_MA) = Len(per)
            /\ \A i \in 1..Len(per) :
                 IF i < window THEN screen.PER_MA[i] = NaN
                 ELSE /\ IsFinite(screen.PER_MA[i])
                      /\ RatMul(screen.PER_MA[i], FromInt(window))
                           = RangeSum(per, i - window + 1, i)

C7_Witness ==
    /\ Clicked /\ screen.kind = "chart"
    /\ Len(screen.PER_MA) = window + 1
    /\ screen.PER_MA[window - 1] = NaN
    /\ IsFinite(screen.PER_MA[window])
    /\ screen.PER_MA[window] # screen.PER_MA[window + 1]
    /\ screen.PER[1] # screen.PER[window + 1]

\* what load_data returns against a source
ResultOn(args, src) ==
    LET r == load_data(args[1], args[2], src)
    IN  [data_df |-> r.data_df, error_message |-> r.error_message]

\* C6: the fetcher is called at most once per (ticker, period); every request
\* returns what the first fetch made for its own (ticker, period) produced, so a
\* repeated request repeats the first result and no request is served from the
\* entry of another ticker or period
C6_MemoizedByKey ==
    /\ \A k \in DOMAIN fetchLog : Len(fetchLog[k]) = 1
    /\ Clicked =>
         /\ CurrentArgs \in DOMAIN fetchLog
         /\ Val(response) = ResultOn(CurrentArgs, fetchLog[CurrentArgs][1])

C6_Witness ==
    /\ Clicked
    /\ yfCalls = <<>>
    /\ net # fetchLog[CurrentArgs][1]
    /\ Val(response) # ResultOn(CurrentArgs, net)
    /\ \E k \in DOMAIN cache :
         /\ k[1] = CurrentArgs[1]
         /\ k[2] # CurrentArgs[2]
         /\ cache[k] # Val(response)

BothAbsent(src) == src.trailingEps = None /\ src.forwardEps = None

PresentButZero(src) ==
    /\ src.trailingEps = Some(0) \/ src.forwardEps = Some(0)
    /\ src.trailingEps \in {None, Some(0)}
    /\ src.forwardEps \in {None, Some(0)}

\* C8: a request whose issuer info holds no EPS figure and a request whose EPS
\* figure is present but zero do not end in the same result
C8_AbsentDistinctFromZero ==
    \A k1 \in DOMAIN cache, k2 \in DOMAIN cache :
        ( /\ k1 \in DOMAIN fetchLog /\ k2 \in DOMAIN fetchLog
          /\ Answered(fetchLog[k1][1]) /\ BothAbsent(fetchLog[k1][1])
          /\ Answered(fetchLog[k2][1]) /\ PresentButZero(fetchLog[k2][1]) )
        => cache[k1] # cache[k2]

IsSpace(c) == c = " "

\* str.strip(): the text without leading and trailing whitespace
RECURSIVE Strip(_)
Strip(s) ==
    IF s = <<>> THEN s
    ELSE IF IsSpace(s[1]) THEN Strip(Tail(s))
    ELSE IF IsSpace(s[Len(s)]) THEN Strip(SubSeq(s, 1, Len(s) - 1))
    ELSE s

\* C9 as stated: the ticker handed to the fetcher is the text trimmed and uppercased
C9_Original ==
    (Clicked /\ yfCalls # <<>>) => yfCalls[1].arg = Upper(Strip(text))

\* C9 amended: the ticker handed to the fetcher and used as the cache key is the
\* text uppercased character by character, whitespace kept; texts that differ only
\* in letter case are served from the same entry
C9_UppercasedNotTrimmed ==
    /\ (Clicked /\ yfCalls # <<>>) =>
          /\ yfCalls[1] = CallTicker(Upper(text))
          /\ Len(yfCalls[1].arg) = Len(text)
    /\ \A k \in DOMAIN cache : k[1] = Upper(k[1])
    /\ Clicked =>
          /\ <<Upper(text), period_options[periodName]>> \in DOMAIN cache
          /\ Val(response) = cache[<<Upper(text), period_options[periodName]>>]

C9_Witness ==
    /\ Clicked
    /\ text # Upper(text)
    /\ ~IsSpace(text[1])
    /\ yfCalls = <<>>
    /\ DOMAIN fetchLog = {<<DefaultText, period_options[periodName]>>}

\* C10: once the first fetch for a (ticker, period) has ended in an error, every
\* later request for it returns that error from the cache without a call to the
\* fetcher, whatever the fetcher would answer now
C10_ErrorsMemoized ==
    [][ ( /\ Click
          /\ CurrentArgs \in DOMAIN fetchLog
          /\ ResultOn(CurrentArgs, fetchLog[CurrentArgs][1]).error_message # None )
        => ( /\ response' = Some(ResultOn(CurrentArgs, fetchLog[CurrentArgs][1]))
             /\ yfCalls' = <<>>
             /\ fetchLog' = fetchLog
             /\ cache' = cache
             /\ screen'.kind = "error" ) ]_vars

C10_Witness ==
    /\ Clicked
    /\ yfCalls = <<>>
    /\ Val(response).error_message # None
    /\ screen.kind = "error"
    /\ ResultOn(CurrentArgs, net).error_message = None
====
